---------------------------- MODULE Spec2Model ----------------------------
(***************************************************************************)
(* A model of src/mda_layer.py: the marginalized denoising autoencoder     *)
(* layer (class mDALayer) and the chunk iterator it trains from (class     *)
(* FilteringDualGrouper).                                                  *)
(*                                                                         *)
(* One layer object is modelled.  Its fields keep the names of the source. *)
(* train() is a sequence of steps (validation, one step per chunk of the   *)
(* corpus, the weight loop), inference is one step.  Matrices are          *)
(* sequences of rows; term indices are 0-based as in the source, so row t  *)
(* of a matrix is element t+1 of the sequence.  Numbers that the source    *)
(* keeps as floats are exact rationals <<numerator, denominator>>.         *)
(***************************************************************************)
EXTENDS Integers, Sequences, FiniteSets

(***************************************************************************)
(* Bounds of the model.                                                    *)
(***************************************************************************)
MaxDim == 3
MaxDocs == 2
MaxChunk == 2
MaxTrains == 2
NoiseDen == 2

(***************************************************************************)
(* Optional values: Python's None and a present value.                     *)
(***************************************************************************)
None == <<>>
Some(x) == <<x>>
IsNone(o) == o = <<>>
Get(o) == o[1]

Min(a, b) == IF a < b THEN a ELSE b

(***************************************************************************)
(* Exact rationals, standing for the floats of the source.                 *)
(***************************************************************************)
RECURSIVE Gcd(_, _)
Gcd(a, b) == IF b = 0 THEN a ELSE Gcd(b, a % b)

Abs(a) == IF a < 0 THEN -a ELSE a

Rat(n, d) ==
    LET g == Gcd(Abs(n), Abs(d))
        s == IF d < 0 THEN -1 ELSE 1
    IN  <<(s * n) \div g, (s * d) \div g>>

RInt(n) == <<n, 1>>
RAdd(p, q) == Rat(p[1] * q[2] + q[1] * p[2], p[2] * q[2])
RSub(p, q) == Rat(p[1] * q[2] - q[1] * p[2], p[2] * q[2])
RMul(p, q) == Rat(p[1] * q[1], p[2] * q[2])
RInv(p) == Rat(p[2], p[1])
RZero == RInt(0)
ROne == RInt(1)

(***************************************************************************)
(* Dense matrices: np.zeros, shape, .T, .copy(), and the products used.    *)
(***************************************************************************)
Rows(M) == Len(M)
Cols(M) == IF Len(M) = 0 THEN 0 ELSE Len(M[1])
Shape(M) == <<Rows(M), Cols(M)>>
Zeros(r, c) == [i \in 1..r |-> [j \in 1..c |-> 0]]
RZeros(r, c) == [i \in 1..r |-> [j \in 1..c |-> RZero]]
Transpose(M) == [j \in 1..Cols(M) |-> [i \in 1..Rows(M) |-> M[i][j]]]
ToRat(M) == [i \in 1..Rows(M) |-> [j \in 1..Cols(M) |-> RInt(M[i][j])]]

RECURSIVE SumTo(_, _)
SumTo(f, n) == IF n = 0 THEN 0 ELSE f[n] + SumTo(f, n - 1)

RECURSIVE RSumTo(_, _)
RSumTo(f, n) == IF n = 0 THEN RZero ELSE RAdd(f[n], RSumTo(f, n - 1))

\* A . B^T for integer matrices with the same number of columns
DotT(A, B) ==
    [i \in 1..Rows(A) |-> [j \in 1..Rows(B) |->
        SumTo([k \in 1..Cols(A) |-> A[i][k] * B[j][k]], Cols(A))]]

MatAdd(A, B) == [i \in 1..Rows(A) |-> [j \in 1..Cols(A) |-> A[i][j] + B[i][j]]]

\* A . B for rational matrices
RDot(A, B) ==
    [i \in 1..Rows(A) |-> [j \in 1..Cols(B) |->
        RSumTo([k \in 1..Cols(A) |-> RMul(A[i][k], B[k][j])], Cols(A))]]

RMatAdd(A, B) == [i \in 1..Rows(A) |-> [j \in 1..Cols(A) |-> RAdd(A[i][j], B[i][j])]]
RMatSub(A, B) == [i \in 1..Rows(A) |-> [j \in 1..Cols(A) |-> RSub(A[i][j], B[i][j])]]
RScale(c, A) == [i \in 1..Rows(A) |-> [j \in 1..Cols(A) |-> RMul(c, A[i][j])]]
IsZeroMat(M) == \A i \in 1..Rows(M) : \A j \in 1..Cols(M) : M[i][j] = RZero


(***************************************************************************)
(* Documents and corpora.  A document is gensim's sparse vector, a list of *)
(* (term id, count) pairs.  The corpus is a stream: train sees a document  *)
(* when utils.grouper pulls it, so the documents of a chunk are chosen     *)
(* when the chunk is built.                                                *)
(***************************************************************************)
Docs(d) == {<<>>} \cup {<< <<t, 1>> >> : t \in 0..(d - 1)}

\* the documents a corpus is made of: the empty one and one holding the last
\* term once
CorpusDocs(d) == {<<>>, << <<d - 1, 1>> >>}
Chunks(d, n) == [1..n -> CorpusDocs(d)]
ChunkSizes == 1..MaxChunk

RECURSIVE DocValue(_, _, _)
DocValue(doc, t, n) ==
    IF n = 0 THEN 0
    ELSE (IF doc[n][1] = t THEN doc[n][2] ELSE 0) + DocValue(doc, t, n - 1)

\* matutils.corpus2csc / corpus2dense: the num_terms x len(chunk) matrix of counts
Corpus2Csc(chunk, num_terms) ==
    [t \in 1..num_terms |-> [j \in 1..Len(chunk) |->
        DocValue(chunk[j], t - 1, Len(chunk[j]))]]

\* M[indices]: the rows of M named by a list of 0-based indices
TakeRows(M, indices) == [i \in 1..Len(indices) |-> M[indices[i] + 1]]

\* vstack((block_data, bias)) with bias a row of ones
WithBias(M, n) == Append(M, [j \in 1..n |-> 1])

(***************************************************************************)
(* mDALayer.__init__                                                       *)
(***************************************************************************)
Range(n) == [i \in 1..n |-> i - 1]
IndexPermutations(n) ==
    {p \in [1..n -> 0..(n - 1)] : \A i, j \in 1..n : p[i] = p[j] => i = j}

NotReducingArg(ind, outArg) == IsNone(outArg) \/ Get(outArg) = ind

InitOutputDimensionality(ind, outArg) ==
    IF NotReducingArg(ind, outArg) THEN ind ELSE Get(outArg)

InitRandomizedIndices(ind, outArg) ==
    IF NotReducingArg(ind, outArg) THEN {Range(ind)} ELSE IndexPermutations(ind)

\* int(float(a) / b): the quotient rounded down instead of up
FloorDiv(a, b) == a \div b

\* int(np.ceil(float(a) / b))
CeilDiv(a, b) == IF a % b = 0 THEN a \div b ELSE (a \div b) + 1

\* the prototype_ids a caller passes: none, or the first outd dimensions
PrototypeChoices(outd) == {None, Some(Range(outd))}

\* the noise levels k / NoiseDen of [0, 1)
Noises == {Rat(k, NoiseDen) : k \in 0..(NoiseDen - 1)}
Lambdas == {RZero, ROne}

VARIABLES
    noise, lambda_, input_dimensionality, output_dimensionality,
    randomized_indices, prototype_ids, num_folds, blocks,
    pc, chunksize, consumed, exhausted, scatters_and_P_matrices, processed,
    train_calls, result, input_data, ret,
    arg_scatter, Q

layer == <<noise, lambda_, input_dimensionality, output_dimensionality,
           randomized_indices, prototype_ids, num_folds>>
frame == <<chunksize, consumed, exhausted, scatters_and_P_matrices, processed>>
solver == <<arg_scatter, Q>>
vars == <<layer, blocks, pc, frame, train_calls, result, input_data, ret, solver>>

\* mDALayer(noise, lambda_, input_dimensionality, output_dimensionality,
\* prototype_ids).  noise and lambda_ are read by _computeWeights alone; the
\* layers that train take one value of each, and SpecQ below takes them all.
Construct ==
    \E ind \in 1..MaxDim :
      \E outArg \in {None} \cup {Some(o) : o \in 1..ind} :
        /\ input_dimensionality = ind
        /\ output_dimensionality = InitOutputDimensionality(ind, outArg)
        /\ randomized_indices \in InitRandomizedIndices(ind, outArg)
        /\ prototype_ids \in PrototypeChoices(InitOutputDimensionality(ind, outArg))
        /\ num_folds = CeilDiv(ind, InitOutputDimensionality(ind, outArg))
        /\ noise = Rat(1, NoiseDen)
        /\ lambda_ = ROne
        /\ blocks = <<>>

Init ==
    /\ Construct
    /\ pc = "idle"
    /\ chunksize = 0
    /\ consumed = <<>>
    /\ exhausted = FALSE
    /\ scatters_and_P_matrices = <<>>
    /\ processed = 0
    /\ train_calls = 0
    /\ result = "none"
    /\ input_data = None
    /\ ret = None
    /\ arg_scatter = None
    /\ Q = None


Reducing == input_dimensionality # output_dimensionality

(***************************************************************************)
(* mDALayer.train, the accumulation loop (l.78-113).                       *)
(***************************************************************************)
\* self.randomized_indices[f * out : (f + 1) * out]; a slice stops at the end
BlockIndices(dim_batch_idx) ==
    SubSeq(randomized_indices,
           dim_batch_idx * output_dimensionality + 1,
           Min((dim_batch_idx + 1) * output_dimensionality, Len(randomized_indices)))

\* FilteringDualGrouper.__iter__: job[self.filter_dimensions, :] or None
Filtered(job) ==
    IF IsNone(prototype_ids) THEN None ELSE Some(TakeRows(job, Get(prototype_ids)))

\* `a += b` (l.102, l.109) with a the ndarray made by np.zeros and b the scipy
\* sparse product: ndarray.__iadd__ gives way to b.__radd__ (scipy's sparse
\* matrices carry the higher __array_priority__), which builds a new dense
\* matrix a + b.  The statement binds the local name to that new matrix; the
\* array that the tuple in scatters_and_P_matrices holds is not written.
IAddSparse(a, b) == [stored |-> a, local |-> MatAdd(a, b)]

\* the entry of scatters_and_P_matrices for one fold after the loop body
FoldEntry(acc, dim_batch_idx, job, filtered) ==
    LET block_indices == BlockIndices(dim_batch_idx)
        block_data == TakeRows(job, block_indices)
        fresh == Len(acc) <= dim_batch_idx
        scatter == IF fresh
                   THEN Zeros(Len(block_indices) + 1, Len(block_indices) + 1)
                   ELSE acc[dim_batch_idx + 1].scatter
        P == IF fresh
             THEN (IF IsNone(filtered) THEN None
                   ELSE Some(Zeros(output_dimensionality, Len(block_indices) + 1)))
             ELSE acc[dim_batch_idx + 1].P
        blocksize == Cols(block_data)
        input_chunk == WithBias(block_data, blocksize)
    IN  [scatter |-> IAddSparse(scatter, DotT(input_chunk, input_chunk)).stored,
         P |-> IF IsNone(filtered) THEN P
               ELSE Some(IAddSparse(Get(P), DotT(Get(filtered), input_chunk)).stored)]

RECURSIVE FoldLoop(_, _, _, _)
FoldLoop(acc, dim_batch_idx, job, filtered) ==
    IF dim_batch_idx >= num_folds THEN acc
    ELSE LET e == FoldEntry(acc, dim_batch_idx, job, filtered)
             next == IF Len(acc) <= dim_batch_idx THEN Append(acc, e)
                     ELSE [acc EXCEPT ![dim_batch_idx + 1] = e]
         IN  FoldLoop(next, dim_batch_idx + 1, job, filtered)

(***************************************************************************)
(* mDALayer._computeWeights                                                *)
(***************************************************************************)
Survive == RSub(ROne, noise)

\* l.151-152: (1 - noise) for every row, 1 for the bias row
Corruption(r_dim, i) == IF i = r_dim + 1 THEN ROne ELSE Survive

\* l.159-170, one overwrite after the other
CorruptedQ(scatter) ==
    LET n == Rows(scatter)
        S == ToRat(scatter)
        undo == RInv(Survive)
        Q0 == RScale(RMul(Survive, Survive), S)
        Q1 == [Q0 EXCEPT ![n] = [j \in 1..n |-> RMul(S[n][j], undo)]]
        Q2 == [i \in 1..n |-> [Q1[i] EXCEPT ![n] = RMul(S[i][n], undo)]]
        Q3 == [Q2 EXCEPT ![n][n] = RMul(S[n][n], RMul(undo, undo))]
    IN  [i \in 1..n |-> [Q3[i] EXCEPT ![i] = RMul(Corruption(n - 1, i), S[i][i])]]

\* l.172-174: lambda_ on the diagonal, 0 for the bias
Reg(n) ==
    [i \in 1..n |-> [j \in 1..n |-> IF i = j /\ i # n THEN lambda_ ELSE RZero]]

\* np.linalg.lstsq(A, B)[0]: the minimum-norm least-squares solution X of
\* A X = B.  For B = 0 it is the zero matrix.  For any other B its entries
\* are left uninterpreted, each named by the system and its position.
Lstsq(A, B) ==
    IF IsZeroMat(B) THEN RZeros(Cols(A), Cols(B))
    ELSE [i \in 1..Cols(A) |-> [j \in 1..Cols(B) |-> <<"lstsq", A, B, i, j>>]]

_computeWeights(scatter, P) ==
    Transpose(Lstsq(RMatAdd(CorruptedQ(scatter), Reg(Rows(scatter))), Transpose(P)))

\* l.121-124: the P handed to _computeWeights
SolverP(entry) ==
    LET P == IF IsNone(entry.P) THEN entry.scatter ELSE Get(entry.P)
    IN  [i \in 1..Rows(P) |-> [j \in 1..Cols(P) |->
            IF j < Cols(P) THEN RMul(RInt(P[i][j]), Survive) ELSE RInt(P[i][j])]]

\* l.120-132: one weight matrix per entry of scatters_and_P_matrices, in order
RECURSIVE WeightLoop(_, _, _)
WeightLoop(blocks_, entries, block_num) ==
    IF block_num >= Len(entries) THEN blocks_
    ELSE WeightLoop(
             Append(blocks_, _computeWeights(entries[block_num + 1].scatter,
                                             SolverP(entries[block_num + 1]))),
             entries, block_num + 1)


(***************************************************************************)
(* Inference (l.196-227), on a dense input_dimensionality x n matrix.      *)
(***************************************************************************)
\* np.tanh of one entry: exact at 0, left uninterpreted elsewhere
Tanh(q) == IF q = RZero THEN RZero ELSE <<"tanh", q>>
TanhMat(M) == [i \in 1..Rows(M) |-> [j \in 1..Cols(M) |-> Tanh(M[i][j])]]

_get_intermediate_representations(block_weights, block_input_data) ==
    RDot(block_weights, ToRat(WithBias(block_input_data, Cols(block_input_data))))

\* The loop of l.214-224 with representation_avg bound to the stored weight
\* matrix of fold 0 instead of a new product: the `+=` of l.224 then lands in
\* self.blocks[0].
RECURSIVE HiddenLoopAliased(_, _, _, _)
HiddenLoopAliased(blocks_, data, dim_batch_idx, representation_avg) ==
    IF dim_batch_idx >= num_folds
    THEN [out |-> TanhMat(Get(representation_avg)), blocks |-> blocks_, input |-> data]
    ELSE LET block_data == TakeRows(data, BlockIndices(dim_batch_idx))
             block_weights == blocks_[dim_batch_idx + 1]
             block_hidden == _get_intermediate_representations(block_weights, block_data)
             avg == IF IsNone(representation_avg) THEN block_hidden
                    ELSE RMatAdd(Get(representation_avg),
                                 RScale(Rat(1, dim_batch_idx + 1),
                                        RMatSub(block_hidden, Get(representation_avg))))
             written == IF IsNone(representation_avg) THEN blocks_
                        ELSE [blocks_ EXCEPT ![1] = avg]
         IN  HiddenLoopAliased(written, data, dim_batch_idx + 1, Some(avg))

\* The loop of l.214-224 from fold dim_batch_idx on.  input_data[block_indices]
\* copies the rows it selects and np.dot returns a new matrix, so the `+=` of
\* l.224 writes the matrix that fold 0 produced: the list self.blocks (blocks_)
\* and the caller's matrix (data) leave the loop as they entered it.
RECURSIVE HiddenLoop(_, _, _, _)
HiddenLoop(blocks_, data, dim_batch_idx, representation_avg) ==
    IF dim_batch_idx >= num_folds
    THEN [out |-> TanhMat(Get(representation_avg)), blocks |-> blocks_, input |-> data]
    ELSE LET block_data == TakeRows(data, BlockIndices(dim_batch_idx))
             block_weights == blocks_[dim_batch_idx + 1]
             block_hidden == _get_intermediate_representations(block_weights, block_data)
             avg == IF IsNone(representation_avg) THEN block_hidden
                    ELSE RMatAdd(Get(representation_avg),
                                 RScale(Rat(1, dim_batch_idx + 1),
                                        RMatSub(block_hidden, Get(representation_avg))))
         IN  HiddenLoop(blocks_, data, dim_batch_idx + 1, Some(avg))

_get_hidden_representations(blocks_, data) == HiddenLoop(blocks_, data, 0, None)

InferenceInputs ==
    {Corpus2Csc(<<doc>>, input_dimensionality) : doc \in CorpusDocs(input_dimensionality)}

(***************************************************************************)
(* The steps of the program.                                               *)
(***************************************************************************)
\* l.63-64 with the assert left out: train goes on without prototype ids
AssertLeftOut == FALSE

\* l.63-64: the condition under which the assert of train fails
AssertFails == Reducing /\ IsNone(prototype_ids)

\* l.63-64: the assert fails; nothing else of train has run
TrainRejected ==
    /\ pc = "idle"
    /\ train_calls < MaxTrains
    /\ AssertFails
    /\ train_calls' = train_calls + 1
    /\ result' = "AssertionError"
    /\ input_data' = None
    /\ ret' = None
    /\ UNCHANGED <<layer, blocks, pc, frame, solver>>

\* l.62-77: train(corpus, chunksize) passes the check and builds the iterator
TrainStart(chunksize_) ==
    /\ pc = "idle"
    /\ train_calls < MaxTrains
    /\ ~AssertFails
    /\ train_calls' = train_calls + 1
    /\ pc' = "iterating"
    /\ chunksize' = chunksize_
    /\ consumed' = <<>>
    /\ exhausted' = FALSE
    /\ scatters_and_P_matrices' = <<>>
    /\ processed' = 0
    /\ result' = "running"
    /\ input_data' = None
    /\ ret' = None
    /\ UNCHANGED <<layer, blocks, solver>>

\* NextChunk with the weight loop of l.120-132 run inside the chunk loop
NextChunkEager(chunk) ==
    /\ pc = "iterating"
    /\ ~exhausted
    /\ Len(chunk) <= chunksize
    /\ LET job == Corpus2Csc(chunk, input_dimensionality)
           acc == FoldLoop(scatters_and_P_matrices, 0, job, Filtered(job))
       IN  /\ scatters_and_P_matrices' = acc
           /\ blocks' = WeightLoop(blocks, acc, 0)
    /\ processed' = processed + Len(chunk)
    /\ consumed' = consumed \o chunk
    /\ exhausted' = (Len(chunk) < chunksize)
    /\ UNCHANGED <<layer, pc, chunksize, train_calls, result, input_data, ret, solver>>

\* l.78-113 with l.25-39: utils.grouper pulls the next chunk, of chunksize
\* documents or of fewer when the corpus ends; it is added to every fold
NextChunk(chunk) ==
    /\ pc = "iterating"
    /\ ~exhausted
    /\ Len(chunk) <= chunksize
    /\ LET job == Corpus2Csc(chunk, input_dimensionality)
       IN  scatters_and_P_matrices' =
               FoldLoop(scatters_and_P_matrices, 0, job, Filtered(job))
    /\ processed' = processed + Len(chunk)
    /\ consumed' = consumed \o chunk
    /\ exhausted' = (Len(chunk) < chunksize)
    /\ UNCHANGED <<layer, blocks, pc, chunksize, train_calls, result,
                   input_data, ret, solver>>

\* l.26-32 raise while the next chunk is pulled and converted (the corpus
\* fails, a document is malformed): train ends with that error
ChunkRaises ==
    /\ pc = "iterating"
    /\ ~exhausted
    /\ pc' = "idle"
    /\ result' = "CorpusError"
    /\ chunksize' = 0
    /\ consumed' = <<>>
    /\ scatters_and_P_matrices' = <<>>
    /\ UNCHANGED <<layer, blocks, exhausted, processed, train_calls, input_data,
                   ret, solver>>

\* the corpus has no further document: the loop of l.78 ends
EndOfCorpus ==
    /\ pc = "iterating"
    /\ pc' = "solving"
    /\ exhausted' = TRUE
    /\ UNCHANGED <<layer, blocks, chunksize, consumed, scatters_and_P_matrices,
                   processed, train_calls, result, input_data, ret, solver>>

\* l.120-136: the weight loop, then train returns
Solve ==
    /\ pc = "solving"
    /\ blocks' = WeightLoop(blocks, scatters_and_P_matrices, 0)
    /\ pc' = "idle"
    /\ result' = "trained"
    /\ chunksize' = 0
    /\ consumed' = <<>>
    /\ exhausted' = FALSE
    /\ scatters_and_P_matrices' = <<>>
    /\ UNCHANGED <<layer, processed, train_calls, input_data, ret, solver>>

\* l.229-232: layer.__getitem__(data, numpy_input=True, numpy_output=True)
Infer(data) ==
    /\ pc = "idle"
    /\ Len(blocks) >= num_folds
    /\ LET r == _get_hidden_representations(blocks, data)
       IN  /\ ret' = Some(r.out)
           /\ blocks' = r.blocks
           /\ input_data' = Some(r.input)
    /\ result' = "inferred"
    /\ UNCHANGED <<layer, pc, frame, train_calls, solver>>

\* l.218: self.blocks[dim_batch_idx] of a list that is too short
InferRaises(data) ==
    /\ pc = "idle"
    /\ Len(blocks) < num_folds
    /\ input_data' = Some(data)
    /\ ret' = None
    /\ result' = "IndexError"
    /\ UNCHANGED <<layer, blocks, pc, frame, train_calls, solver>>

Next ==
    \/ TrainRejected
    \/ \E cs \in ChunkSizes : TrainStart(cs)
    \/ \E n \in 1..(MaxDocs - Len(consumed)) :
         \E chunk \in Chunks(input_dimensionality, n) : NextChunk(chunk)
    \/ ChunkRaises
    \/ EndOfCorpus
    \/ Solve
    \/ \E data \in InferenceInputs : Infer(data)
    \/ \E data \in InferenceInputs : InferRaises(data)

Spec == Init /\ [][Next]_vars


(***************************************************************************)
(* _computeWeights on its own: a layer without reduction, any noise level  *)
(* and regularisation, and as scatter the augmented second moments of a    *)
(* small non-empty corpus.                                                 *)
(***************************************************************************)
\* the augmented vector of one document over a block of dimensions
Augmented(doc, indices) ==
    [i \in 1..(Len(indices) + 1) |->
        IF i <= Len(indices) THEN DocValue(doc, indices[i], Len(doc)) ELSE 1]

Outer(u, v) == [i \in 1..Len(u) |-> [j \in 1..Len(v) |-> u[i] * v[j]]]

\* the values of one document at a list of dimensions
Restricted(doc, indices) ==
    [i \in 1..Len(indices) |-> DocValue(doc, indices[i], Len(doc))]

\* the sum over the first n documents of the outer product of the augmented
\* vector with itself
RECURSIVE ScatterSum(_, _, _)
ScatterSum(docs, n, indices) ==
    IF n = 0 THEN Zeros(Len(indices) + 1, Len(indices) + 1)
    ELSE MatAdd(ScatterSum(docs, n - 1, indices),
                Outer(Augmented(docs[n], indices), Augmented(docs[n], indices)))

\* the sum over the first n documents of the outer product of the target
\* vector with the augmented vector
RECURSIVE CrossSum(_, _, _, _)
CrossSum(docs, n, targets, indices) ==
    IF n = 0 THEN Zeros(Len(targets), Len(indices) + 1)
    ELSE MatAdd(CrossSum(docs, n - 1, targets, indices),
                Outer(Restricted(docs[n], targets), Augmented(docs[n], indices)))

ScatterOf(docs, indices) == ScatterSum(docs, Len(docs), indices)

ScatterInputs(d) ==
    {ScatterOf(docs, Range(d)) : docs \in UNION {[1..n -> Docs(d)] : n \in 1..MaxDocs}}

InitQ ==
    /\ \E d \in 1..MaxDim :
         /\ input_dimensionality = d
         /\ output_dimensionality = d
         /\ randomized_indices = Range(d)
         /\ num_folds = 1
         /\ arg_scatter \in {Some(m) : m \in ScatterInputs(d)}
    /\ prototype_ids = None
    /\ noise \in Noises
    /\ lambda_ \in Lambdas
    /\ blocks = <<>>
    /\ pc = "idle"
    /\ chunksize = 0
    /\ consumed = <<>>
    /\ exhausted = FALSE
    /\ scatters_and_P_matrices = <<>>
    /\ processed = 0
    /\ train_calls = 0
    /\ result = "none"
    /\ input_data = None
    /\ ret = None
    /\ Q = None

\* self._computeWeights(scatter, P) as l.121-128 calls it for self-reconstruction;
\* Q is the matrix of l.159-170 when the call returns
ComputeWeightsCall ==
    /\ IsNone(Q)
    /\ Q' = Some(CorruptedQ(Get(arg_scatter)))
    /\ ret' = Some(_computeWeights(Get(arg_scatter),
                                   SolverP([scatter |-> Get(arg_scatter), P |-> None])))
    /\ result' = "solved"
    /\ UNCHANGED <<layer, blocks, pc, frame, train_calls, input_data, arg_scatter>>

NextQ == ComputeWeightsCall

SpecQ == InitQ /\ [][NextQ]_vars


(***************************************************************************)
(* The claims.                                                             *)
(***************************************************************************)
FoldIds == 0..(num_folds - 1)

\* C1: a layer without reduction that has trained once on a non-empty corpus
\* holds exactly 1 weight matrix, of shape d x (d + 1), and inference on one
\* document then returns d components.
C1_SelfReconstructionShapes ==
    (/\ ~Reducing
     /\ pc = "idle"
     /\ train_calls = 1
     /\ processed > 0
     /\ result \in {"trained", "inferred"})
    => /\ Len(blocks) = 1
       /\ Shape(blocks[1]) = <<input_dimensionality, input_dimensionality + 1>>
       /\ result = "inferred" => Shape(Get(ret)) = <<input_dimensionality, 1>>

\* C2: num_folds is ceil(input_dimensionality / output_dimensionality); the
\* blocks of folds 0..num_folds-1 are non-empty, of size output_dimensionality
\* except possibly the last, and hold every index of [0, input_dimensionality)
\* exactly once; without reduction there is 1 fold and the order is the identity.
C2_FoldsPartitionDimensions ==
    /\ output_dimensionality \in 1..input_dimensionality
    /\ num_folds * output_dimensionality >= input_dimensionality
    /\ (num_folds - 1) * output_dimensionality < input_dimensionality
    /\ \A f \in FoldIds :
         /\ Len(BlockIndices(f)) >= 1
         /\ f < num_folds - 1 => Len(BlockIndices(f)) = output_dimensionality
         /\ Len(BlockIndices(f)) <= output_dimensionality
    /\ \A t \in 0..(input_dimensionality - 1) :
         Cardinality({<<f, i>> \in FoldIds \X (1..output_dimensionality) :
                        i <= Len(BlockIndices(f)) /\ BlockIndices(f)[i] = t}) = 1
    /\ ~Reducing => num_folds = 1 /\ randomized_indices = Range(input_dimensionality)

\* C2 witness: a pass over a corpus has used two folds, the last one shorter
C2_Witness ==
    /\ input_dimensionality = 3
    /\ output_dimensionality = 2
    /\ randomized_indices # Range(3)
    /\ Len(BlockIndices(1)) = 1
    /\ pc = "solving"
    /\ Len(scatters_and_P_matrices) = 2

\* C3: when the pass over the corpus is complete, the scatter matrix of every
\* fold is the sum over every document of the corpus of the outer product of
\* its augmented vector with itself, and the P matrix, where one is kept, the
\* sum of the outer products of its target vector with its augmented vector,
\* whatever the chunk size.
C3_AccumulatorsAreTheSums ==
    pc = "solving" =>
      \A f \in 1..Len(scatters_and_P_matrices) :
        LET e == scatters_and_P_matrices[f]
        IN  /\ e.scatter = ScatterSum(consumed, Len(consumed), BlockIndices(f - 1))
            /\ ~IsNone(e.P) =>
                 Get(e.P) = CrossSum(consumed, Len(consumed), Get(prototype_ids),
                                     BlockIndices(f - 1))

\* C4: a reducing layer without prototype ids never gets past the check of
\* train: a train call ends with the configuration error, no document of the
\* corpus is pulled, no accumulator is made and the weight list stays empty.
C4_ConfigurationErrorFirst ==
    (Reducing /\ IsNone(prototype_ids))
    => /\ pc = "idle"
       /\ consumed = <<>>
       /\ processed = 0
       /\ scatters_and_P_matrices = <<>>
       /\ blocks = <<>>
       /\ (train_calls > 0 /\ IsNone(input_data)) => result = "AssertionError"

\* C4 witness: train was called on such a layer and raised
C4_Witness ==
    /\ Reducing
    /\ IsNone(prototype_ids)
    /\ train_calls = 1
    /\ result = "AssertionError"

\* C5: a train call on an untrained layer that returns leaves exactly
\* num_folds weight matrices, the k-th one solved from the accumulated
\* statistics of fold k, for every corpus, the empty one included.
C5_OneMatrixPerFold ==
    [][(pc = "solving" /\ pc' = "idle" /\ blocks = <<>>)
       => /\ Len(blocks') = num_folds
          /\ \A k \in 1..num_folds :
               blocks'[k] = _computeWeights(scatters_and_P_matrices[k].scatter,
                                            SolverP(scatters_and_P_matrices[k]))]_vars

\* C6: once the layer holds its weights, no train or inference call changes
\* the stored list of weight matrices.
C6_WeightsImmutable ==
    [][Len(blocks) >= num_folds => blocks' = blocks]_vars

\* C7: while train iterates the corpus for an untrained layer, every step
\* (a chunk accumulated, the end of the corpus, a chunk that raises) leaves
\* the weight list empty, and a chunk that raises ends train with that error.
C7_FailedPassLeavesUntrained ==
    [][(pc = "iterating" /\ blocks = <<>>)
       => /\ blocks' = <<>>
          /\ pc' = "idle" => result' = "CorpusError"]_vars

\* C7 witness: the first train call failed after documents were accumulated
C7_Witness ==
    /\ pc = "idle"
    /\ result = "CorpusError"
    /\ train_calls = 1
    /\ processed > 0
    /\ blocks = <<>>

\* C8: an inference call changes neither the weight matrices nor the
\* dimension permutation nor num_folds nor the matrix the caller passed, and
\* a call with the same input as the call before returns the same output.
C8_InferenceFrame ==
    [][result' = "inferred"
       => /\ blocks' = blocks
          /\ randomized_indices' = randomized_indices
          /\ num_folds' = num_folds
          /\ input_data' \in {Some(data) : data \in InferenceInputs}
          /\ (result = "inferred" /\ input_data' = input_data) => ret' = ret]_vars

\* C8 witness: inference ran on a trained layer with more than one fold, so
\* the running average of l.224 was updated in place
C8_Witness ==
    /\ result = "inferred"
    /\ num_folds >= 2
    /\ Len(blocks) >= num_folds
    /\ Shape(Get(ret)) = <<output_dimensionality, 1>>

\* C9: in the matrix Q of _computeWeights every bias cross-term is the
\* scatter entry times (1 - noise): Q[i, bias] = Q[bias, i] =
\* scatter[i, bias] * (1 - noise) for every non-bias index i.
C9_BiasCrossTerms ==
    ~IsNone(Q) =>
      LET S == Get(arg_scatter)
          n == Rows(S)
      IN  \A i \in 1..(n - 1) :
            /\ Get(Q)[i][n] = RMul(RInt(S[i][n]), Survive)
            /\ Get(Q)[n][i] = RMul(RInt(S[i][n]), Survive)

\* C10: a layer without reduction keeps no P matrix of its own during train,
\* whatever prototype ids it was built with: the P handed to the solver is
\* made from the scatter matrix of the fold.
C10_NoSeparateP ==
    (~Reducing /\ pc \in {"iterating", "solving"})
    => \A f \in 1..Len(scatters_and_P_matrices) :
         LET e == scatters_and_P_matrices[f]
         IN  /\ IsNone(e.P)
             /\ SolverP(e) = SolverP([scatter |-> e.scatter, P |-> None])

=============================================================================
